---- MODULE Spec2Model ----
(***************************************************************************)
(* State-machine model of package httpclient (httpclient/httpclient.go):   *)
(* New -> Get / PostJSON / PostForm -> Invoke -> Drop / JSON / WriteTo.    *)
(* Strings that the code inspects (URLs, bodies, error messages) are       *)
(* sequences of one-character strings; opaque strings (User-Agent, header  *)
(* values, HTTP methods) are TLA+ strings.  Durations are in seconds.      *)
(***************************************************************************)
EXTENDS Integers, Sequences, FiniteSets, TLC

(* ------------------------------ bounds -------------------------------- *)
MaxURLLen == 2       \* longest Options.Proxy string drawn as an input
MaxStrLen == 1       \* longest value of the field A of a JSON object
MaxTimeoutIn == 2    \* largest Options.Timeout drawn as an input
MaxConsume == 2      \* body-consumption calls made on one Response
MaxWCap == 1         \* largest number of bytes a failing writer accepts

(* ------------------------- program constants -------------------------- *)
DefaultTimeout == 30
DefaultUA == "Mozilla/5.0 (Windows NT 10.0; Win64; x64) AppleWebKit/537.36 (KHTML, like Gecko) Chrome/106.0.0.0 Safari/537.36"
StatusOK == 200

(* ------------------------------ errors -------------------------------- *)
Nil == [kind |-> "nil", msg |-> <<>>]
Err(k, m) == [kind |-> k, msg |-> m]

(* --------------------------- small helpers ---------------------------- *)
RECURSIVE SeqsUpTo(_, _)
SeqsUpTo(S, n) ==
  IF n = 0 THEN {<<>>}
  ELSE LET P == SeqsUpTo(S, n - 1)
       IN  P \cup {Append(p, c) : p \in {q \in P : Len(q) = n - 1}, c \in S}

Prefix(s, n) == SubSeq(s, 1, n)

Contains(s, sub) ==
  \E i \in 0..(Len(s) - Len(sub)) : SubSeq(s, i + 1, i + Len(sub)) = sub

SetMin(S) == CHOOSE x \in S : \A y \in S : x <= y

Digit(d) ==
  CASE d = 0 -> "0" [] d = 1 -> "1" [] d = 2 -> "2" [] d = 3 -> "3"
    [] d = 4 -> "4" [] d = 5 -> "5" [] d = 6 -> "6" [] d = 7 -> "7"
    [] d = 8 -> "8" [] d = 9 -> "9"

\* fmt's %d for a non-negative int
RECURSIVE Itoa(_)
Itoa(n) == IF n < 10 THEN <<Digit(n)>> ELSE Itoa(n \div 10) \o <<Digit(n % 10)>>

(* ------------------------------- URLs --------------------------------- *)
\* "h" stands for a letter, "DEL" for the ASCII control character 0x7f.
URLChars == {"h", ":", "DEL"}
URLs == SeqsUpTo(URLChars, MaxURLLen)
\* the URLs requests are built for: two that parse, one without a scheme
\* before its colon, one holding a control character
ReqURLs == {<<"h">>, <<"h", ":", "h">>, <<":", "h">>, <<"h", "DEL">>}

\* url.Parse as the code relies on it: a control character or a leading
\* colon is rejected, all else parses.
urlParse(u) ==
  IF \E i \in 1..Len(u) : u[i] = "DEL"
    THEN Err("url", <<"c", "t", "l">> \o u)
  ELSE IF Len(u) > 0 /\ u[1] = ":"
    THEN Err("url", <<"s", "c", "h", "e", "m", "e">> \o u)
  ELSE Nil

(* ------------------------------- JSON --------------------------------- *)
StrChars == {"1", "2"}
Strs == SeqsUpTo(StrChars, MaxStrLen)
\* values of the Go type  struct{ A string }
Values == [kind : {"obj"}, A : Strs]
\* a value encoding/json cannot serialise (a channel)
Chan == [kind |-> "chan", A |-> <<>>]
\* the bodies passed to PostJSON
JSONInputs == {[kind |-> "obj", A |-> <<"1">>], Chan}

ObjHead == <<"{", "\"", "A", "\"", ":", "\"">>

\* json.Marshal
Marshal(v) ==
  IF v.kind = "obj"
    THEN [err |-> Nil, data |-> ObjHead \o v.A \o <<"\"", "}">>]
    ELSE [err |-> Err("marshal", <<"c", "h", "a", "n">>), data |-> <<>>]

\* what json.Encoder writes for v: the Marshal bytes and a newline
Encode(v) == Marshal(v).data \o <<"\n">>

IsWS(c) == c \in {" ", "\n"}
Digits == {"0", "1", "2", "3", "4", "5", "6", "7", "8", "9"}

RECURSIVE SkipWS(_)
SkipWS(s) == IF Len(s) > 0 /\ IsWS(s[1]) THEN SkipWS(Tail(s)) ELSE s

\* Scan the first JSON value of s for a target of type struct{ A string }.
\* st: "ok" (object, A present), "empty" (object without A), "type" (a
\* complete value of another type), "more" (input ends inside the value),
\* "syntax" (invalid).
ScanValue(s0) ==
  LET s == SkipWS(s0)
      n == Len(s)
      res(st, a) == [st |-> st, A |-> a]
  IN
  IF n = 0 THEN res("more", <<>>)
  ELSE IF s[1] = "{" THEN
    IF n >= 2 /\ s[2] = "}" THEN res("empty", <<>>)
    ELSE IF n >= Len(ObjHead) /\ Prefix(s, Len(ObjHead)) = ObjHead THEN
      LET qs == {j \in (Len(ObjHead) + 1)..n : s[j] = "\""}
      IN  IF qs = {} THEN res("more", <<>>)
          ELSE LET j == SetMin(qs)
               IN  IF j = n THEN res("more", <<>>)
                   ELSE IF s[j + 1] = "}"
                     THEN res("ok", SubSeq(s, Len(ObjHead) + 1, j - 1))
                     ELSE res("syntax", <<>>)
    ELSE IF n < Len(ObjHead) /\ s = Prefix(ObjHead, n) THEN res("more", <<>>)
    ELSE res("syntax", <<>>)
  ELSE IF s[1] \in Digits THEN
    \* a number ends at a delimiter; without one it needs the end of input
    IF \E j \in 2..n : IsWS(s[j]) THEN res("type", <<>>) ELSE res("more", <<>>)
  ELSE res("syntax", <<>>)

ReadErr == Err("read", <<"r", "e", "a", "d">>)
ClosedErr == Err("read", <<"c", "l", "o", "s", "e", "d">>)
WriteErr == Err("write", <<"w", "r", "i", "t", "e">>)
EOFErr == Err("decode", <<"E", "O", "F">>)
UnexpectedEOF == Err("decode", <<"u", "E", "O", "F">>)

\* json.NewDecoder(body).Decode(o): in is what the body delivers, rerr the
\* error (or Nil for a clean end) that follows it, t the value o holds.
DecodeDropsQuote(in, rerr, t) ==
  LET r == ScanValue(in)
  IN  IF r.st = "ok" THEN [err |-> Nil, val |-> [kind |-> "obj", A |-> r.A \o <<"\"">>]]
      ELSE [err |-> Err("decode", <<"x">>), val |-> t]

Decode(in, rerr, t) ==
  LET r == ScanValue(in)
  IN  CASE r.st = "ok" -> [err |-> Nil, val |-> [kind |-> "obj", A |-> r.A]]
        [] r.st = "empty" -> [err |-> Nil, val |-> t]
        [] r.st = "type" ->
             [err |-> Err("decode", <<"t", "y", "p", "e">>), val |-> t]
        [] r.st = "syntax" ->
             [err |-> Err("decode", <<"s", "y", "n", "t", "a", "x">>), val |-> t]
        [] r.st = "more" ->
             IF rerr # Nil THEN [err |-> rerr, val |-> t]
             ELSE IF SkipWS(in) = <<>> THEN [err |-> EOFErr, val |-> t]
             ELSE IF SkipWS(in)[1] \in Digits
               THEN [err |-> Err("decode", <<"t", "y", "p", "e">>), val |-> t]
             ELSE [err |-> UnexpectedEOF, val |-> t]

(* ------------------------------ io.Copy ------------------------------- *)
\* io.Copy(w, body): in is what the body delivers, rerr the error (or Nil)
\* that follows it, w0 the bytes the writer holds, wcap the number of bytes
\* the writer accepts before it fails (-1: it never fails).
CopySwallowsReadErr(w0, in, rerr, wcap) ==
  LET short == wcap >= 0 /\ wcap < Len(in)
      n == IF short THEN wcap ELSE Len(in)
  IN  [n |-> n,
       err |-> IF short THEN WriteErr ELSE Nil,
       w |-> w0 \o Prefix(in, n)]

Copy(w0, in, rerr, wcap) ==
  LET short == wcap >= 0 /\ wcap < Len(in)
      n == IF short THEN wcap ELSE Len(in)
  IN  [n |-> n,
       err |-> IF short THEN WriteErr ELSE rerr,
       w |-> w0 \o Prefix(in, n)]

(* ------------------------- Options and Client ------------------------- *)
NoOptions == [nil |-> TRUE, Proxy |-> <<>>, UA |-> "", Timeout |-> 0]
OptionsSet ==
  {NoOptions} \cup
  [nil : {FALSE}, Proxy : URLs, UA : {"", "robot/1.0"},
   Timeout : (-1)..MaxTimeoutIn]

NoClient == [nil |-> TRUE, Timeout |-> 0, UA |-> "", Proxied |-> FALSE]

\* New(o): the pair (client, error) it returns
NewTimeoutGE(o) ==
  IF ~o.nil /\ o.Proxy # <<>> /\ urlParse(o.Proxy) # Nil
    THEN [c |-> NoClient, err |-> urlParse(o.Proxy)]
    ELSE [c |-> [nil |-> FALSE,
                 Timeout |-> IF ~o.nil /\ o.Timeout >= 0
                               THEN o.Timeout ELSE DefaultTimeout,
                 UA |-> IF ~o.nil /\ o.UA # "" THEN o.UA ELSE DefaultUA,
                 Proxied |-> ~o.nil /\ o.Proxy # <<>>],
          err |-> Nil]

NewKeepsClient(o) ==
  [c |-> [nil |-> FALSE,
          Timeout |-> IF ~o.nil /\ o.Timeout > 0 THEN o.Timeout ELSE DefaultTimeout,
          UA |-> IF ~o.nil /\ o.UA # "" THEN o.UA ELSE DefaultUA,
          Proxied |-> ~o.nil /\ o.Proxy # <<>>],
   err |-> IF ~o.nil /\ o.Proxy # <<>> THEN urlParse(o.Proxy) ELSE Nil]

New(o) ==
  IF ~o.nil /\ o.Proxy # <<>> /\ urlParse(o.Proxy) # Nil
    THEN [c |-> NoClient, err |-> urlParse(o.Proxy)]
    ELSE [c |-> [nil |-> FALSE,
                 Timeout |-> IF ~o.nil /\ o.Timeout > 0
                               THEN o.Timeout ELSE DefaultTimeout,
                 UA |-> IF ~o.nil /\ o.UA # "" THEN o.UA ELSE DefaultUA,
                 Proxied |-> ~o.nil /\ o.Proxy # <<>>],
          err |-> Nil]

(* ------------------------------ Request ------------------------------- *)
\* Request{Err: e}: no wrapped *http.Request, no Cancel, no Client
ErrRequest(e) ==
  [Request |-> FALSE, Method |-> "", URL |-> <<>>, Body |-> <<>>, UA |-> "",
   ContentType |-> "", Err |-> e, Cancel |-> FALSE, Client |-> FALSE]

NoRequest == ErrRequest(Nil)

\* makeRequest(method, url, body): the Request it returns, whether a timeout
\* context was created and how often its cancel function was called
makeRequestKeepsCancel(c, method, url, data) ==
  IF urlParse(url) # Nil
    THEN [req |-> [ErrRequest(urlParse(url)) EXCEPT !.Cancel = TRUE],
          ctx |-> TRUE, cancels |-> 1]
    ELSE [req |-> [Request |-> TRUE, Method |-> "GET", URL |-> url,
                   Body |-> data, UA |-> c.UA, ContentType |-> "",
                   Err |-> Nil, Cancel |-> TRUE, Client |-> TRUE],
          ctx |-> TRUE, cancels |-> 0]

makeRequest(c, method, url, data) ==
  IF urlParse(url) # Nil
    THEN [req |-> ErrRequest(urlParse(url)), ctx |-> TRUE, cancels |-> 1]
    ELSE [req |-> [Request |-> TRUE, Method |-> "GET", URL |-> url,
                   Body |-> data, UA |-> c.UA, ContentType |-> "",
                   Err |-> Nil, Cancel |-> TRUE, Client |-> TRUE],
          ctx |-> TRUE, cancels |-> 0]

Get(c, url) == makeRequest(c, "GET", url, <<>>)

PostJSON(c, url, v) ==
  IF Marshal(v).err # Nil
    THEN [req |-> ErrRequest(Marshal(v).err), ctx |-> FALSE, cancels |-> 0]
    ELSE LET r == makeRequest(c, "POST", url, Marshal(v).data)
         IN  IF r.req.Err # Nil THEN r
             ELSE [r EXCEPT !.req.ContentType = "application/json"]

\* url.Values.Encode for values holding at most one key
FormInputs == {<<>>, <<"k", "1">>}
FormEncode(vs) == IF vs = <<>> THEN <<>> ELSE <<vs[1], "=", vs[2]>>

PostForm(c, url, vs) ==
  LET r == makeRequest(c, "POST", url, FormEncode(vs))
  IN  IF r.req.Err # Nil THEN r
      ELSE [r EXCEPT !.req.ContentType = "application/x-www-form-urlencoded"]

(* ------------------------------ Response ------------------------------ *)
NoResponse == [Response |-> FALSE, StatusCode |-> 0, Err |-> Nil]
NoBody == [exists |-> FALSE, data |-> <<>>, closed |-> FALSE]

Statuses == {200, 201, 204, 301, 404, 500}
Bodies ==
  {Encode(v) : v \in Values} \cup
  {<<>>, <<"1", "\n">>, <<"{", "}">>, <<"n", "o">>}

\* what client.Do returns: an error, or a response with a status and a body
Outcomes ==
  [ok : {FALSE}, err : {Err("transport", <<"d", "i", "a", "l">>),
                        Err("timeout", <<"d", "e", "a", "d", "l", "i", "n", "e">>)},
   status : {0}, data : {<<>>}]
  \cup [ok : {TRUE}, err : {Nil}, status : Statuses, data : Bodies]

\* Invoke(): the Response, its body, the number of HTTP calls made, and
\* whether a nil Client was dereferenced
InvokeAlwaysSends(r, out) ==
  IF out.ok
    THEN [rsp |-> [Response |-> TRUE, StatusCode |-> out.status, Err |-> Nil],
          body |-> [exists |-> TRUE, data |-> out.data, closed |-> FALSE],
          sent |-> 1, panic |-> FALSE]
    ELSE [rsp |-> [NoResponse EXCEPT !.Err = out.err], body |-> NoBody,
          sent |-> 1, panic |-> FALSE]

Invoke(r, out) ==
  IF r.Err # Nil
    THEN [rsp |-> [NoResponse EXCEPT !.Err = r.Err], body |-> NoBody,
          sent |-> 0, panic |-> FALSE]
  ELSE IF ~r.Client \/ ~r.Request
    THEN [rsp |-> NoResponse, body |-> NoBody, sent |-> 0, panic |-> TRUE]
  ELSE IF ~out.ok
    THEN [rsp |-> [NoResponse EXCEPT !.Err = out.err], body |-> NoBody,
          sent |-> 1, panic |-> FALSE]
  ELSE [rsp |-> [Response |-> TRUE, StatusCode |-> out.status, Err |-> Nil],
        body |-> [exists |-> TRUE, data |-> out.data, closed |-> FALSE],
        sent |-> 1, panic |-> FALSE]

\* The bytes a read of body b to its end delivers, and the error that ends
\* it: cut is where the stream fails (Len(b.data): it does not fail).
Delivered(b, cut) == IF b.closed THEN <<>> ELSE Prefix(b.data, cut)
ReadError(b, cut) ==
  IF b.closed THEN ClosedErr ELSE IF cut < Len(b.data) THEN ReadErr ELSE Nil

StatusMsg(code, data) ==
  <<"R", "e", "s", "p", "o", "n", "s", "e", " ">> \o Itoa(code)
    \o <<",", " ", "b", "o", "d", "y", "=">> \o data

\* checkStatusCode(): data is what io.ReadAll gets from the body
checkStatusCodeLax(code, data) ==
  IF code >= 400 THEN Err("status", StatusMsg(code, data)) ELSE Nil

checkStatusCode(code, data) ==
  IF code # StatusOK THEN Err("status", StatusMsg(code, data)) ELSE Nil

\* A nil Cancel func or a nil *http.Response is used past the Err check.
NilUse(rq, rs) == ~rq.Cancel \/ ~rs.Response

\* Drop / JSON / WriteTo: the values returned (err, n), the number of Cancel
\* calls made, whether the body was closed, and the writer / target after.
Drop(rq, rs, b, cut) ==
  IF rs.Err # Nil
    THEN [err |-> rs.Err, n |-> 0, cancel |-> 0, close |-> FALSE, panic |-> FALSE]
  ELSE IF NilUse(rq, rs)
    THEN [err |-> Nil, n |-> 0, cancel |-> 0, close |-> FALSE, panic |-> TRUE]
  ELSE [err |-> checkStatusCode(rs.StatusCode, Delivered(b, cut)), n |-> 0,
        cancel |-> 1, close |-> TRUE, panic |-> FALSE]

JSON(rq, rs, b, cut, t) ==
  IF rs.Err # Nil
    THEN [err |-> rs.Err, n |-> 0, cancel |-> 0, close |-> FALSE,
          panic |-> FALSE, target |-> t]
  ELSE IF NilUse(rq, rs)
    THEN [err |-> Nil, n |-> 0, cancel |-> 0, close |-> FALSE,
          panic |-> TRUE, target |-> t]
  ELSE LET e == checkStatusCode(rs.StatusCode, Delivered(b, cut))
           d == Decode(Delivered(b, cut), ReadError(b, cut), t)
       IN  IF e # Nil
             THEN [err |-> e, n |-> 0, cancel |-> 1, close |-> TRUE,
                   panic |-> FALSE, target |-> t]
             ELSE [err |-> d.err, n |-> 0, cancel |-> 1, close |-> TRUE,
                   panic |-> FALSE, target |-> d.val]

WriteTo(rq, rs, b, cut, w0, wcap) ==
  IF rs.Err # Nil
    THEN [err |-> rs.Err, n |-> 0, cancel |-> 0, close |-> FALSE,
          panic |-> FALSE, w |-> w0]
  ELSE IF NilUse(rq, rs)
    THEN [err |-> Nil, n |-> 0, cancel |-> 0, close |-> FALSE,
          panic |-> TRUE, w |-> w0]
  ELSE LET e == checkStatusCode(rs.StatusCode, Delivered(b, cut))
           c == Copy(w0, Delivered(b, cut), ReadError(b, cut), wcap)
       IN  IF e # Nil
             THEN [err |-> e, n |-> 0, cancel |-> 1, close |-> TRUE,
                   panic |-> FALSE, w |-> w0]
             ELSE [err |-> c.err, n |-> c.n, cancel |-> 1, close |-> TRUE,
                   panic |-> FALSE, w |-> c.w]

(* --------------------------- state machine ---------------------------- *)
VARIABLES
  pc,        \* "init", "failed" (New returned an error), "client",
             \* "request", "response"
  opts,      \* the Options passed to New
  client,    \* the Client New returned
  newErr,    \* the error New returned
  call,      \* the constructor that built req: "Get", "PostJSON", "PostForm"
  req,       \* the Request
  ctx,       \* a timeout context was created for req
  cancels,   \* calls made of that context's cancel function
  sent,      \* HTTP calls made (client.Do)
  rsp,       \* the Response
  body,      \* the http.Response's Body
  ret,       \* the last body-consumption call: its arguments and results
  consumed,  \* body-consumption calls made on rsp
  panic      \* a nil Client, Cancel or http.Response was used

vars == <<pc, opts, client, newErr, call, req, ctx, cancels, sent, rsp, body,
          ret, consumed, panic>>

\* op: the call; err, n: what it returned; cut: where the body's stream
\* failed; wcap: the bytes the writer accepts (-1: all); w0, w: the writer before and after; t0, t: the JSON target before
\* and after; closedBefore: the body was closed when the call began.
NoRet == [op |-> "none", err |-> Nil, n |-> 0, cut |-> 0, wcap |-> -1,
          w0 |-> <<>>,
          w |-> <<>>, t0 |-> [kind |-> "obj", A |-> <<>>],
          t |-> [kind |-> "obj", A |-> <<>>], closedBefore |-> FALSE]

Init ==
  /\ pc = "init"
  /\ opts = NoOptions
  /\ client = NoClient
  /\ newErr = Nil
  /\ call = "none"
  /\ req = NoRequest
  /\ ctx = FALSE
  /\ cancels = 0
  /\ sent = 0
  /\ rsp = NoResponse
  /\ body = NoBody
  /\ ret = NoRet
  /\ consumed = 0
  /\ panic = FALSE

\* c, err := New(o) for some o of O
DoNew(O) ==
  /\ pc = "init"
  /\ \E o \in O :
       /\ opts' = o
       /\ client' = New(o).c
       /\ newErr' = New(o).err
       /\ pc' = IF New(o).err # Nil THEN "failed" ELSE "client"
  /\ UNCHANGED <<call, req, ctx, cancels, sent, rsp, body, ret, consumed, panic>>

Built(r, name) ==
  /\ pc = "client"
  /\ req' = r.req
  /\ ctx' = r.ctx
  /\ cancels' = r.cancels
  /\ call' = name
  /\ pc' = "request"
  /\ UNCHANGED <<opts, client, newErr, sent, rsp, body, ret, consumed, panic>>

DoGet == \E u \in ReqURLs : Built(Get(client, u), "Get")

DoPostJSON ==
  \E u \in ReqURLs, v \in JSONInputs : Built(PostJSON(client, u, v), "PostJSON")

DoPostForm ==
  \E u \in ReqURLs, vs \in FormInputs : Built(PostForm(client, u, vs), "PostForm")

DoInvoke ==
  /\ pc = "request"
  /\ \E out \in Outcomes :
       LET r == Invoke(req, out)
       IN  /\ rsp' = r.rsp
           /\ body' = r.body
           /\ sent' = sent + r.sent
           /\ panic' = r.panic
  /\ pc' = "response"
  /\ UNCHANGED <<opts, client, newErr, call, req, ctx, cancels, ret, consumed>>

\* where the body's stream may fail; a closed body delivers nothing
Cuts == IF body.closed THEN {0} ELSE 0..Len(body.data)
Sinks == {<<>>, <<"w">>}
WCaps == (-1)..MaxWCap

Consumed(r, name, cut, wcap, w0, w1, t0, t1) ==
  /\ pc = "response"
  /\ ~panic
  /\ consumed < MaxConsume
  /\ consumed' = consumed + 1
  /\ cancels' = cancels + r.cancel
  /\ body' = IF r.close THEN [body EXCEPT !.closed = TRUE] ELSE body
  /\ panic' = r.panic
  /\ ret' = [op |-> name, err |-> r.err, n |-> r.n, cut |-> cut,
             wcap |-> wcap, w0 |-> w0,
             w |-> w1, t0 |-> t0, t |-> t1, closedBefore |-> body.closed]
  /\ UNCHANGED <<pc, opts, client, newErr, call, req, ctx, sent, rsp>>

DoDrop ==
  \E cut \in Cuts :
    Consumed(Drop(req, rsp, body, cut), "Drop", cut, NoRet.wcap,
             NoRet.w0, NoRet.w, NoRet.t0, NoRet.t)

DoJSON ==
  \E cut \in Cuts, t \in Values :
    LET r == JSON(req, rsp, body, cut, t)
    IN  Consumed(r, "JSON", cut, NoRet.wcap, NoRet.w0, NoRet.w, t, r.target)

DoWriteTo ==
  \E cut \in Cuts, w0 \in Sinks, wcap \in WCaps :
    LET r == WriteTo(req, rsp, body, cut, w0, wcap)
    IN  Consumed(r, "WriteTo", cut, wcap, w0, r.w, NoRet.t0, NoRet.t)

\* the Options the request chain is run with: none, a custom client, and a
\* proxy that does not parse
ChainOptions ==
  {NoOptions,
   [nil |-> FALSE, Proxy |-> <<"h">>, UA |-> "robot/1.0", Timeout |-> 1],
   [nil |-> FALSE, Proxy |-> <<":">>, UA |-> "", Timeout |-> 0]}

Next ==
  \/ DoNew(ChainOptions)
  \/ DoGet
  \/ DoPostJSON
  \/ DoPostForm
  \/ DoInvoke
  \/ DoDrop
  \/ DoJSON
  \/ DoWriteTo

Spec == Init /\ [][Next]_vars

\* New alone, over every Options value
NextNew == DoNew(OptionsSet)

SpecNew == Init /\ [][NextNew]_vars

(* ------------------------------ properties ---------------------------- *)
Live == pc = "response" /\ rsp.Err = Nil
Returned == pc = "response" /\ ret.op # "none"

\* C1: a Response without error whose status is not 200 makes each of Drop,
\* JSON and WriteTo return a non-nil error whose message contains the status
\* code; with status 200, Drop returns nil.
C1_StatusPolicy ==
  (Live /\ Returned) =>
    /\ rsp.StatusCode # 200 =>
         /\ ret.err # Nil
         /\ Contains(ret.err.msg, Itoa(rsp.StatusCode))
    /\ (rsp.StatusCode = 200 /\ ret.op = "Drop") => ret.err = Nil

C1_Witness ==
  /\ Live /\ ret.op = "WriteTo" /\ rsp.StatusCode = 201
  /\ ret.err.kind = "status"

\* C2: after a constructor, Invoke and one body-consumption call, the cancel
\* function of the timeout context created for the Request has been called
\* exactly once.
C2_CancelExactlyOnce ==
  (pc = "response" /\ consumed = 1 /\ ctx) => cancels = 1

\* C3: a Request built by PostJSON or PostForm has method POST, one built by
\* Get has method GET.
C3_MethodAsRequested ==
  (pc \in {"request", "response"} /\ req.Request) =>
    req.Method = (IF call = "Get" THEN "GET" ELSE "POST")

C5_CleanupBeforeReturn ==
  Returned =>
    /\ ctx => cancels >= 1
    /\ body.exists => body.closed

CleanCopy ==
  /\ ~ret.closedBefore
  /\ ret.cut = Len(body.data)
  /\ (ret.wcap < 0 \/ ret.wcap >= Len(body.data))

ValidFor(b) == b = <<"{", "}">> \/ \E v \in Values : b = Encode(v)

C8_Defaults ==
  pc = "client" =>
    /\ client.Timeout =
         (IF ~opts.nil /\ opts.Timeout > 0 THEN opts.Timeout ELSE 30)
    /\ client.UA = (IF ~opts.nil /\ opts.UA # "" THEN opts.UA ELSE DefaultUA)
    /\ client.Timeout > 0
    /\ client.UA # ""

C8_Witness ==
  /\ pc = "client" /\ ~opts.nil /\ opts.Timeout = 0 /\ opts.UA = "robot/1.0"
  /\ client.Timeout = 30 /\ client.UA = "robot/1.0"

\* C9: New returns exactly one of a Client and an error: the parse error and
\* no Client when Options.Proxy is non-empty and does not parse, a Client and
\* nil otherwise; it makes no HTTP call.
C9_ClientXorError ==
  pc \in {"client", "failed"} =>
    LET bad == ~opts.nil /\ opts.Proxy # <<>> /\ urlParse(opts.Proxy) # Nil
    IN  /\ client.nil <=> newErr # Nil
        /\ bad => (client.nil /\ newErr = urlParse(opts.Proxy))
        /\ ~bad => (~client.nil /\ newErr = Nil)
        /\ sent = 0

C9_Witness ==
  /\ pc = "failed" /\ opts.Proxy = <<":">> /\ client.nil /\ newErr.kind = "url"

====
